---- MODULE Spec2Model ----
(***************************************************************************)
(* Model of lpsolve_wrapper.Model (src/lpsolve_wrapper.py): the notation   *)
(* registry with its flat layout, the per-notation staging buffers `_mat`, *)
(* the three constraint authoring calls, _post_proc, reshape_notation and  *)
(* lp_solve up to the call of the external solver (lp_maker / lpsolve).    *)
(*                                                                         *)
(* Numbers.  A numpy element is a record [k, v, h]:                        *)
(*   k = "num"  : the real number v, or v + 1/2 when h is TRUE (so that    *)
(*                1.5 is representable and int64 truncation is visible),   *)
(*   k = "inf"  : +infinity (v = 1) or -infinity (v = -1),                 *)
(*   k = "nan"  : not-a-number (what fill(None) writes into a float array),*)
(*   k = "none" : the Python object None inside an object array.           *)
(* A Python scalar given by the caller is one of these or                  *)
(*   k = "pyint": the Python int v (numpy infers int64 from it).           *)
(*                                                                         *)
(* Arrays.  An ndarray is [dtype, shape, at]: shape is a tuple of          *)
(* dimensions, at maps every multi-index (0-based tuple) to an element.    *)
(* ravel / reshape / itemset go through the row-major index arithmetic.    *)
(***************************************************************************)
EXTENDS Integers, Sequences, FiniteSets, TLC

\* ------------------------------------------------------------------------
\* Program constants (src/lpsolve_wrapper.py:6-11)
INT_TYPE == 1
FLOAT_TYPE == 0
EQ == 0
GEQ == 1
LEQ == -1
INF == 100000

\* ------------------------------------------------------------------------
\* Bounds of the model
MaxCalls == 2     \* calls made on one Model
MaxCoefs == 2     \* longest coefs list given to add_constr

\* ------------------------------------------------------------------------
\* Elements
Num(n) == [k |-> "num", v |-> n, h |-> FALSE]
Half(n) == [k |-> "num", v |-> n, h |-> TRUE]     \* the float n + 0.5
PyInt(n) == [k |-> "pyint", v |-> n, h |-> FALSE]
PosInf == [k |-> "inf", v |-> 1, h |-> FALSE]
NegInf == [k |-> "inf", v |-> -1, h |-> FALSE]
NaN == [k |-> "nan", v |-> 0, h |-> FALSE]
None == [k |-> "none", v |-> 0, h |-> FALSE]
Zero == Num(0)

\* int(x) of a finite number: truncation toward zero.
Trunc(e) == IF e.h /\ e.v < 0 THEN e.v + 1 ELSE e.v

\* dtype.setitem: the element stored when the Python scalar e is written into
\* an array of the given dtype, or a raise.
Cast(dtype, e) ==
    CASE dtype = "object" ->
           [ok |-> TRUE, e |-> IF e.k = "pyint" THEN Num(e.v) ELSE e]
      [] dtype = "float64" ->
           IF e.k = "none" THEN [ok |-> TRUE, e |-> NaN]
           ELSE IF e.k = "pyint" THEN [ok |-> TRUE, e |-> Num(e.v)]
           ELSE [ok |-> TRUE, e |-> e]
      [] OTHER ->  \* int64
           IF e.k \in {"pyint", "num"} THEN [ok |-> TRUE, e |-> Num(Trunc(e))]
           ELSE [ok |-> FALSE, e |-> Zero]

\* ------------------------------------------------------------------------
\* Row-major index arithmetic
RECURSIVE Prod(_)
Prod(shape) == IF shape = <<>> THEN 1 ELSE Head(shape) * Prod(Tail(shape))

RECURSIVE Indices(_)
Indices(shape) ==
    IF shape = <<>> THEN {<<>>}
    ELSE {<<i>> \o rest : i \in 0 .. (Head(shape) - 1), rest \in Indices(Tail(shape))}

\* np.ravel_multi_index: sum of idx[d] * stride[d], stride = product of later dims.
RECURSIVE FlatIndex(_, _)
FlatIndex(idx, shape) ==
    IF shape = <<>> THEN 0
    ELSE Head(idx) * Prod(Tail(shape)) + FlatIndex(Tail(idx), Tail(shape))

\* np.unravel_index: repeated division by the trailing dimensions.
RECURSIVE Unravel(_, _)
Unravel(k, shape) ==
    IF shape = <<>> THEN <<>>
    ELSE LET last == shape[Len(shape)]
             front == SubSeq(shape, 1, Len(shape) - 1)
         IN Unravel(k \div last, front) \o <<k % last>>

\* ------------------------------------------------------------------------
\* ndarray primitives
Size(a) == Prod(a.shape)

\* np.zeros(shape): float64 zeros.
Zeros(shape) == [dtype |-> "float64", shape |-> shape,
                 at |-> [i \in Indices(shape) |-> Zero]]

\* a.ravel(): the elements in row-major order, as a 1-based sequence.
Ravel(a) == [p \in 1 .. Size(a) |-> a.at[Unravel(p - 1, a.shape)]]

\* np.reshape(seq, shape) of a flat sequence.
Reshape(seq, shape) ==
    [dtype |-> "float64", shape |-> shape,
     at |-> [i \in Indices(shape) |-> seq[FlatIndex(i, shape) + 1]]]

\* a.fill(e): every element becomes Cast(dtype, e); raises when the cast does.
Fill(a, e) ==
    LET c == Cast(a.dtype, e)
    IN IF c.ok THEN [ok |-> TRUE, err |-> "", a |-> [a EXCEPT !.at = [i \in DOMAIN a.at |-> c.e]]]
       ELSE [ok |-> FALSE, err |-> "OverflowError", a |-> a]

\* An index given to itemset: [flat |-> TRUE, i |-> <<k>>] is the int k (flat
\* position), [flat |-> FALSE, i |-> tuple] a multi-index.
FlatIdx(k) == [flat |-> TRUE, i |-> <<k>>]
MultiIdx(t) == [flat |-> FALSE, i |-> t]

InRange(a, idx) ==
    IF idx.flat THEN idx.i[1] >= 0 /\ idx.i[1] < Size(a)
    ELSE idx.i \in Indices(a.shape)

\* a.itemset(idx, e), against the array's CURRENT shape: ValueError for a tuple
\* with the wrong number of indices, IndexError for an index out of bounds,
\* otherwise the cast element is written in place.
ItemSet(a, idx, e) ==
    IF ~idx.flat /\ Len(idx.i) # Len(a.shape)
    THEN [ok |-> FALSE, err |-> "ValueError", a |-> a]
    ELSE IF ~InRange(a, idx) THEN [ok |-> FALSE, err |-> "IndexError", a |-> a]
    ELSE LET c == Cast(a.dtype, e)
             at == IF idx.flat THEN Unravel(idx.i[1], a.shape) ELSE idx.i
         IN IF c.ok THEN [ok |-> TRUE, err |-> "", a |-> [a EXCEPT !.at[at] = c.e]]
            ELSE [ok |-> FALSE, err |-> "OverflowError", a |-> a]

\* dtype numpy infers for a collection of Python scalars.
InferDtype(elems) ==
    IF \E e \in elems : e.k = "none" THEN "object"
    ELSE IF \A e \in elems : e.k = "pyint" THEN "int64"
    ELSE "float64"

\* np.array(mat): mat is a Python value described by its nesting shape and
\* its scalars, [shape, at]; the result is a NEW array of the inferred dtype
\* and of mat's own shape.
NpArray(mat) ==
    LET dt == InferDtype({mat.at[i] : i \in DOMAIN mat.at})
    IN [dtype |-> dt, shape |-> mat.shape,
        at |-> [i \in DOMAIN mat.at |-> Cast(dt, mat.at[i]).e]]

\* np.concatenate of 1-d arrays: result dtype is the promotion of the parts.
Promote(dtypes) ==
    IF "object" \in dtypes THEN "object"
    ELSE IF "float64" \in dtypes THEN "float64"
    ELSE "int64"

RECURSIVE Concat(_)
Concat(seqs) == IF seqs = <<>> THEN <<>> ELSE Head(seqs) \o Concat(Tail(seqs))

\* tmp[np.isposinf(tmp)] = INF ; tmp[np.isneginf(tmp)] = -INF
Clamp(e) == IF e.k = "inf" THEN Num(e.v * INF) ELSE e
ClampAll(seq) == [p \in 1 .. Len(seq) |-> Clamp(seq[p])]

\* ------------------------------------------------------------------------
\* Caller inputs

\* A Python nested list / ndarray / scalar of the given nesting shape whose
\* scalars are all e.
Full(shape, e) == [shape |-> shape, at |-> [i \in Indices(shape) |-> e]]

\* A nested list of the given shape holding +inf first, -inf second (row-major)
\* and 1.5 elsewhere.
Mixed(shape) ==
    [shape |-> shape,
     at |-> [i \in Indices(shape) |->
               CASE FlatIndex(i, shape) = 0 -> PosInf
                 [] FlatIndex(i, shape) = 1 -> NegInf
                 [] OTHER -> Half(1)]]

\* A bound given to notation(): a single value (None by default) or a list.
ScalarBound(e) == [iterable |-> FALSE, scalar |-> e, list |-> Full(<<>>, e)]
ListBound(mat) == [iterable |-> TRUE, scalar |-> None, list |-> mat]

\* notation(shape, upper_bound, lower_bound, ntype); an int shape n is the
\* tuple <<n>> (np.zeros, np.prod and np.reshape treat the two alike).
notation(name, shape, upper_bound, lower_bound, ntype) ==
    [name |-> name, shape |-> shape, upper_bound |-> upper_bound,
     lower_bound |-> lower_bound, type |-> ntype]

\* The ordered notation dicts a Model is constructed from.
Layouts ==
    { <<>>,
      << notation("x", <<2>>, ScalarBound(PosInf), ScalarBound(PyInt(0)), INT_TYPE),
         notation("y", <<1>>, ScalarBound(None), ScalarBound(NegInf), FLOAT_TYPE) >>,
      << notation("x", <<1>>, ScalarBound(None), ScalarBound(PyInt(0)), FLOAT_TYPE),
         notation("y", <<1, 2>>,
                  ListBound([shape |-> <<2>>, at |-> (<<0>> :> PyInt(1)) @@ (<<1>> :> PosInf)]),
                  ScalarBound(PyInt(0)), INT_TYPE) >>,
      << notation("x", <<2, 2>>, ScalarBound(PyInt(1)), ScalarBound(PyInt(0)), INT_TYPE) >> }

\* Names a call may mention; "y" is unregistered in the one-notation layout and
\* both are in the empty one.
AnyNames == {"x", "y"}

\* ------------------------------------------------------------------------
\* Model.__init__

\* The bound after the normalisation loop: a scalar is broadcast by
\* np.empty(shape).fill(bound); an Iterable is kept (np.ravel sees np.array of it).
NormBound(b, shape) ==
    IF b.iterable THEN NpArray(b.list)
    ELSE Fill(Zeros(shape), b.scalar).a

\* Mutant of IntIndexes: 0-based indices (the + 1 forgotten).
IntIndexes_ZeroBased(offset, len) == [p \in 1 .. len |-> offset + p - 1]

\* np.arange(_length) + _offset + 1
IntIndexes(offset, len) == [p \in 1 .. len |-> offset + p]

\* Mutant of Register: _offset is the number of notations registered so far
\* instead of the running length.
Register_OffsetByCount(d, acc) ==
    LET len == Prod(d.shape)
        n == [name |-> d.name, shape |-> d.shape, type |-> d.type,
              upper_bound |-> NormBound(d.upper_bound, d.shape),
              lower_bound |-> NormBound(d.lower_bound, d.shape),
              mat |-> Zeros(d.shape),
              offset |-> Len(acc.notations),
              length |-> len]
    IN [notations |-> Append(acc.notations, n),
        length |-> acc.length + len,
        must_be_int |->
            IF d.type = INT_TYPE
            THEN acc.must_be_int \o IntIndexes(acc.length, len)
            ELSE acc.must_be_int]

\* One pass of the body of `for n in notations`: the notation gets its
\* normalised bounds, its zero buffer, _offset = the running length and
\* _length = np.prod(shape); the running length and must_be_int grow.
Register(d, acc) ==
    LET len == Prod(d.shape)
        n == [name |-> d.name, shape |-> d.shape, type |-> d.type,
              upper_bound |-> NormBound(d.upper_bound, d.shape),
              lower_bound |-> NormBound(d.lower_bound, d.shape),
              mat |-> Zeros(d.shape),
              offset |-> acc.length,
              length |-> len]
    IN [notations |-> Append(acc.notations, n),
        length |-> acc.length + len,
        must_be_int |->
            IF d.type = INT_TYPE
            THEN acc.must_be_int \o IntIndexes(acc.length, len)
            ELSE acc.must_be_int]

RECURSIVE InitLoop(_, _)
InitLoop(decls, acc) ==
    IF decls = <<>> THEN acc ELSE InitLoop(Tail(decls), Register(Head(decls), acc))

ModelInit(decls) ==
    InitLoop(decls, [notations |-> <<>>, length |-> 0, must_be_int |-> <<>>])

\* ------------------------------------------------------------------------
\* State
VARIABLES
    notations,      \* Model.notations: ordered records, one per notation
    length,         \* Model.length
    must_be_int,    \* Model.must_be_int
    coef_mat,       \* Model.coef_mat: list of flat rows
    right_values,   \* Model.right_values
    constr_types,   \* Model.constr_types
    call,           \* the call that just ended: [op, ok, err, arg] (ok: it returned;
                    \* err: the exception it raised; arg: the raw_notation
                    \* given to reshape_notation)
    ret,            \* what that call returned (<<>> for None)
    solver,         \* what that call handed to lp_maker (NotCalled when it did not)
    ncalls,         \* number of calls made on the Model so far
    raised          \* TRUE once a call on the Model has raised

\* The value of `solver` after a call that did not reach lp_maker.
NotCalled == [called |-> FALSE, f |-> <<>>, vlb |-> <<>>, vub |-> <<>>, xint |-> <<>>]

vars == <<notations, length, must_be_int, coef_mat, right_values, constr_types,
          call, ret, solver, ncalls, raised>>

Init ==
    \E decls \in Layouts :
        LET m == ModelInit(decls)
        IN /\ notations = m.notations
           /\ length = m.length
           /\ must_be_int = m.must_be_int
           /\ coef_mat = <<>>
           /\ right_values = <<>>
           /\ constr_types = <<>>
           /\ call = [op |-> "__init__", ok |-> TRUE, err |-> "", arg |-> <<>>]
           /\ ret = <<>>
           /\ solver = NotCalled
           /\ ncalls = 0
           /\ raised = FALSE

\* Position of a notation in the dict, 0 for a KeyError.
Pos(nots, name) ==
    IF \E p \in 1 .. Len(nots) : nots[p].name = name
    THEN CHOOSE p \in 1 .. Len(nots) : nots[p].name = name
    ELSE 0

Names(nots) == {nots[p].name : p \in 1 .. Len(nots)}

\* ------------------------------------------------------------------------
\* The part of a Model the authoring calls read and write.
Store(nots, cm, rvs, cts) ==
    [notations |-> nots, coef_mat |-> cm, right_values |-> rvs, constr_types |-> cts]

Here == Store(notations, coef_mat, right_values, constr_types)

\* The outcome of a call: whether it returned (ok) and the Model it leaves.
Returned(m) == [ok |-> TRUE, err |-> "", m |-> m]
Raised(m, err) == [ok |-> FALSE, err |-> err, m |-> m]

\* mats = [n['_mat'].ravel() ...]; np.concatenate(mats)
FlatMats(nots) == Concat([p \in 1 .. Len(nots) |-> Ravel(nots[p].mat)])
FlatDtype(nots) == Promote({nots[p].mat.dtype : p \in 1 .. Len(nots)})

\* Mutant of ClearMats: the buffers are left as they are.
ClearMats_Skipped(nots) == nots

\* for n in self.notations.values(): n['_mat'].fill(0)
ClearMats(nots) ==
    [p \in 1 .. Len(nots) |-> [nots[p] EXCEPT !.mat = Fill(nots[p].mat, PyInt(0)).a]]

\* Model._post_proc.  The right-hand side and the relation are appended first;
\* np.concatenate raises on an empty list of arrays and np.isposinf raises on
\* an object array, both before the row is appended and the buffers cleared.
_post_proc(m, right_value, constr_type) ==
    LET m1 == [m EXCEPT !.right_values = Append(@, right_value),
                        !.constr_types = Append(@, constr_type)]
    IN IF Len(m.notations) = 0 THEN Raised(m1, "ValueError")
       ELSE IF FlatDtype(m.notations) = "object" THEN Raised(m1, "TypeError")
       ELSE Returned([m1 EXCEPT !.coef_mat = Append(@, ClampAll(FlatMats(m.notations))),
                                !.notations = ClearMats(m.notations)])

\* for c in coefs: self.notations[c['name']]['_mat'].itemset(c['idx'], c['value'])
RECURSIVE ItemLoop(_, _)
ItemLoop(nots, coefs) ==
    IF coefs = <<>> THEN [ok |-> TRUE, err |-> "", notations |-> nots]
    ELSE LET c == Head(coefs)
             p == Pos(nots, c.name)
         IN IF p = 0 THEN [ok |-> FALSE, err |-> "KeyError", notations |-> nots]
            ELSE LET w == ItemSet(nots[p].mat, c.idx, c.value)
                 IN IF ~w.ok THEN [ok |-> FALSE, err |-> w.err, notations |-> nots]
                    ELSE ItemLoop([nots EXCEPT ![p].mat = w.a], Tail(coefs))

\* Model.add_constr
add_constr(m, coefs, right_value, constr_type) ==
    LET l == ItemLoop(m.notations, coefs)
    IN IF ~l.ok THEN Raised([m EXCEPT !.notations = l.notations], l.err)
       ELSE _post_proc([m EXCEPT !.notations = l.notations], right_value, constr_type)

\* for name, mat in coef_mats.items(): self.notations[name]['_mat'] = np.array(mat)
RECURSIVE MatLoop(_, _)
MatLoop(nots, coef_mats) ==
    IF coef_mats = <<>> THEN [ok |-> TRUE, err |-> "", notations |-> nots]
    ELSE LET e == Head(coef_mats)
             p == Pos(nots, e.name)
         IN IF p = 0 THEN [ok |-> FALSE, err |-> "KeyError", notations |-> nots]
            ELSE MatLoop([nots EXCEPT ![p].mat = NpArray(e.mat)], Tail(coef_mats))

\* Model.add_constr_mat
add_constr_mat(m, coef_mats, right_value, constr_type) ==
    LET l == MatLoop(m.notations, coef_mats)
    IN IF ~l.ok THEN Raised([m EXCEPT !.notations = l.notations], l.err)
       ELSE _post_proc([m EXCEPT !.notations = l.notations], right_value, constr_type)

\* What a callback does with the buffer it is handed: one element write
\* (x.itemset(idx, value)) or a fill of the whole buffer (x.fill(value)).
CbItem(idx, e) == [op |-> "itemset", idx |-> idx, value |-> e]
CbFill(e) == [op |-> "fill", idx |-> FlatIdx(0), value |-> e]

RunCallback(cb, a) ==
    IF cb.op = "fill" THEN Fill(a, cb.value) ELSE ItemSet(a, cb.idx, cb.value)

\* for name, callback in callbacks.items(): callback(self.notations[name]['_mat'])
RECURSIVE CallbackLoop(_, _)
CallbackLoop(nots, callbacks) ==
    IF callbacks = <<>> THEN [ok |-> TRUE, err |-> "", notations |-> nots]
    ELSE LET e == Head(callbacks)
             p == Pos(nots, e.name)
         IN IF p = 0 THEN [ok |-> FALSE, err |-> "KeyError", notations |-> nots]
            ELSE LET w == RunCallback(e.callback, nots[p].mat)
                 IN IF ~w.ok THEN [ok |-> FALSE, err |-> w.err, notations |-> nots]
                    ELSE CallbackLoop([nots EXCEPT ![p].mat = w.a], Tail(callbacks))

\* Model.add_constr_callback
add_constr_callback(m, callbacks, right_value, constr_type) ==
    LET l == CallbackLoop(m.notations, callbacks)
    IN IF ~l.ok THEN Raised([m EXCEPT !.notations = l.notations], l.err)
       ELSE _post_proc([m EXCEPT !.notations = l.notations], right_value, constr_type)

\* raw_notation[lo:hi] of a Python list: clipped to the list, never an error.
Slice(seq, lo, hi) ==
    LET h == IF hi > Len(seq) THEN Len(seq) ELSE hi
    IN IF lo >= h THEN <<>> ELSE SubSeq(seq, lo + 1, h)

\* Mutant of Piece: the slice ends at _length instead of _offset + _length.
Piece_EndWithoutOffset(raw_notation, v) == Slice(raw_notation, v.offset, v.length)

\* raw_notation[v['_offset']:v['_offset'] + v['_length']]
Piece(raw_notation, v) == Slice(raw_notation, v.offset, v.offset + v.length)

\* Model.reshape_notation: per notation, np.reshape of its slice to the
\* registered shape; np.reshape raises when the slice has the wrong size.
reshape_notation(nots, raw_notation) ==
    IF \E p \in 1 .. Len(nots) : Len(Piece(raw_notation, nots[p])) # Prod(nots[p].shape)
    THEN [ok |-> FALSE, err |-> "ValueError", nd_results |-> <<>>]
    ELSE [ok |-> TRUE, err |-> "",
          nd_results |-> [p \in 1 .. Len(nots) |->
                            [name |-> nots[p].name,
                             value |-> Reshape(Piece(raw_notation, nots[p]), nots[p].shape)]]]

\* What the external solver (lp_maker, lpsolve) does with its inputs: it
\* raises, or it hands back the flat vector raw_notation.
SolverRaises == [raises |-> TRUE, raw_notation |-> <<>>]
SolverGives(raw) == [raises |-> FALSE, raw_notation |-> raw]

\* np.array(self.coef_mat, dtype=np.float32) raises on rows of unequal length.
Ragged(cm) == \E i, j \in 1 .. Len(cm) : Len(cm[i]) # Len(cm[j])

\* np.concatenate([np.ravel(n[bound]) for n in self.notations.values()]).tolist()
FlatLower(nots) == Concat([p \in 1 .. Len(nots) |-> Ravel(nots[p].lower_bound)])
FlatUpper(nots) == Concat([p \in 1 .. Len(nots) |-> Ravel(nots[p].upper_bound)])

\* Model.lp_solve.  The result carries, besides the Model, what was handed to
\* lp_maker (lp: objective f, bounds vlb and vub, integer indexes xint; the
\* constraint arguments are the store itself) and the value returned.
lp_solve(m, mbi, obj_func, outcome) ==
    LET l == MatLoop(m.notations, obj_func)
        m1 == [m EXCEPT !.notations = l.notations]
        lp == [called |-> TRUE,
               f |-> ClampAll(FlatMats(l.notations)),
               vlb |-> FlatLower(l.notations),
               vub |-> FlatUpper(l.notations),
               xint |-> mbi]
        m2 == [m1 EXCEPT !.notations = ClearMats(l.notations)]
        r == reshape_notation(m2.notations, outcome.raw_notation)
        fail(err, mm, given) == [ok |-> FALSE, err |-> err, m |-> mm, lp |-> given, ret |-> <<>>]
    IN CASE ~l.ok -> fail(l.err, m1, NotCalled)
         [] l.ok /\ Len(l.notations) = 0 -> fail("ValueError", m1, NotCalled)
         [] l.ok /\ Len(l.notations) > 0 /\ FlatDtype(l.notations) = "object" ->
              fail("TypeError", m1, NotCalled)
         [] l.ok /\ Len(l.notations) > 0 /\ FlatDtype(l.notations) # "object"
                 /\ Ragged(m.coef_mat) ->
              fail("ValueError", m1, NotCalled)
         [] OTHER ->
              IF outcome.raises THEN fail("SolverError", m1, lp)
              ELSE IF ~r.ok THEN fail(r.err, m2, lp)
              ELSE [ok |-> TRUE, err |-> "", m |-> m2, lp |-> lp, ret |-> r.nd_results]

\* ------------------------------------------------------------------------
\* Inputs of the calls
SeqsUpTo(S, n) == UNION {[1 .. k -> S] : k \in 0 .. n}

\* A dict literal: its keys are distinct.
DistinctNames(seq) == \A i, j \in 1 .. Len(seq) : i # j => seq[i].name # seq[j].name

RightValues == {PyInt(75)}
ConstrTypes == {LEQ}

\* coef(name, value, idx)
coef(name, value, idx) == [name |-> name, idx |-> idx, value |-> value]

\* 1.5 at the int index 0, +inf at the tuple index (1, 0).
Coefs ==
    {coef(n, Half(1), FlatIdx(0)) : n \in AnyNames}
        \cup {coef(n, PosInf, MultiIdx(<<1, 0>>)) : n \in AnyNames}

\* The arrays a caller may give for a notation of registered shape `shape`:
\* right shape (floats with infinities, Python ints), a Python int scalar,
\* and None.
MatsFor(shape) ==
    { Mixed(shape), Full(shape, PyInt(1)), Full(<<>>, PyInt(1)), Full(<<>>, None) }

ShapeOf(nots, name) == IF Pos(nots, name) = 0 THEN <<1>> ELSE nots[Pos(nots, name)].shape

MatEntries(nots) ==
    {[name |-> n, mat |-> Full(<<>>, PyInt(1))] : n \in AnyNames \ Names(nots)}
        \cup UNION {{[name |-> n, mat |-> mt] : mt \in MatsFor(ShapeOf(nots, n))} :
                    n \in Names(nots)}

\* dicts name -> array, in insertion order
CoefMats(nots) ==
    {cm \in SeqsUpTo(MatEntries(nots), Cardinality(AnyNames)) : DistinctNames(cm)}

CallbackBodies ==
    {CbItem(FlatIdx(0), Half(1)), CbItem(MultiIdx(<<1, 0>>), PosInf), CbFill(Half(1))}

\* dicts name -> callback, in insertion order
Callbacks ==
    {cb \in SeqsUpTo({[name |-> n, callback |-> c] : n \in AnyNames, c \in CallbackBodies},
                     Cardinality(AnyNames)) :
        DistinctNames(cb)}

\* Per-notation arrays of the registered shapes whose elements are all
\* different: the element at multi-index i of the p-th notation is 100 p plus
\* the decimal number spelled by i.
RECURSIVE Digits(_, _)
Digits(i, acc) == IF i = <<>> THEN acc ELSE Digits(Tail(i), 10 * acc + Head(i))
Tagged(nots) ==
    [p \in 1 .. Len(nots) |->
        [dtype |-> "float64", shape |-> nots[p].shape,
         at |-> [i \in Indices(nots[p].shape) |-> Num(100 * p + Digits(i, 0))]]]

\* Their concatenation in declaration order.
Flatten(x) == Concat([p \in 1 .. Len(x) |-> Ravel(x[p])])

\* Flat vectors a caller may give: that concatenation, the same with its last
\* element missing, and with one element more.
RawVectors(nots) ==
    LET raw == Flatten(Tagged(nots))
    IN {raw, Append(raw, Zero), SubSeq(raw, 1, Len(raw) - 1)}

\* ------------------------------------------------------------------------
\* Actions: one per public method of Model
Commit(op, arg, res) ==
    /\ notations' = res.m.notations
    /\ coef_mat' = res.m.coef_mat
    /\ right_values' = res.m.right_values
    /\ constr_types' = res.m.constr_types
    /\ call' = [op |-> op, ok |-> res.ok, err |-> res.err, arg |-> arg]
    /\ ncalls' = ncalls + 1
    /\ raised' = (raised \/ ~res.ok)
    /\ UNCHANGED <<length, must_be_int>>

AddConstr ==
    /\ ncalls < MaxCalls
    /\ \E coefs \in SeqsUpTo(Coefs, MaxCoefs), rv \in RightValues, ct \in ConstrTypes :
          Commit("add_constr", <<>>, add_constr(Here, coefs, rv, ct))
    /\ ret' = <<>>
    /\ solver' = NotCalled

AddConstrMat ==
    /\ ncalls < MaxCalls
    /\ \E coef_mats \in CoefMats(notations), rv \in RightValues, ct \in ConstrTypes :
          Commit("add_constr_mat", <<>>, add_constr_mat(Here, coef_mats, rv, ct))
    /\ ret' = <<>>
    /\ solver' = NotCalled

AddConstrCallback ==
    /\ ncalls < MaxCalls
    /\ \E callbacks \in Callbacks, rv \in RightValues, ct \in ConstrTypes :
          Commit("add_constr_callback", <<>>, add_constr_callback(Here, callbacks, rv, ct))
    /\ ret' = <<>>
    /\ solver' = NotCalled

ReshapeNotation ==
    /\ ncalls < MaxCalls
    /\ \E raw \in RawVectors(notations) :
        LET r == reshape_notation(notations, raw)
        IN /\ ret' = r.nd_results
           /\ ncalls' = ncalls + 1
           /\ raised' = (raised \/ ~r.ok)
           /\ call' = [op |-> "reshape_notation", ok |-> r.ok, err |-> r.err, arg |-> raw]
           /\ solver' = NotCalled
           /\ UNCHANGED <<notations, length, must_be_int, coef_mat, right_values,
                          constr_types>>

LpSolve ==
    /\ ncalls < MaxCalls
    /\ \E obj_func \in CoefMats(notations) :
        \E outcome \in {SolverRaises, SolverGives(Flatten(Tagged(notations)))} :
            LET res == lp_solve(Here, must_be_int, obj_func, outcome)
            IN /\ Commit("lp_solve", <<>>, res)
               /\ ret' = res.ret
               /\ solver' = res.lp

Next == AddConstr \/ AddConstrMat \/ AddConstrCallback \/ ReshapeNotation \/ LpSolve

Spec == Init /\ [][Next]_vars

\* ------------------------------------------------------------------------
\* Properties

Authoring == {"add_constr", "add_constr_mat", "add_constr_callback"}

AllZero(a) == \A i \in DOMAIN a.at : a.at[i] = Zero

LastRow(cm) == cm[Len(cm)]

\* C1: after every add_constr, add_constr_mat, add_constr_callback or lp_solve
\* call that returned, every notation's buffer _mat is all-zero.
C1_BuffersZeroAfterUse ==
    (call.ok /\ call.op \in Authoring \cup {"lp_solve"})
        => \A p \in 1 .. Len(notations) : AllZero(notations[p].mat)

\* A second call returned, an lp_solve after a stored row, and left a buffer
\* whose element type an earlier array replaced.
C1_Witness ==
    /\ call.ok /\ call.op = "lp_solve" /\ ncalls = 2 /\ Len(coef_mat) = 1
    /\ \E p \in 1 .. Len(notations) : notations[p].mat.dtype = "int64"
    /\ \A p \in 1 .. Len(notations) : AllZero(notations[p].mat)

\* The row a coefs list asks for: each listed value (an infinity as the
\* sentinel) at offset(name) + idx, the last one given for a position winning,
\* and 0 everywhere else.
FlatOf(idx, shape) == IF idx.flat THEN idx.i[1] ELSE FlatIndex(idx.i, shape)
ExpectedRow(nots, n, coefs) ==
    [k \in 1 .. n |->
        LET hits == {q \in 1 .. Len(coefs) :
                        LET p == Pos(nots, coefs[q].name)
                        IN p # 0 /\ nots[p].offset + FlatOf(coefs[q].idx, nots[p].shape) = k - 1}
        IN IF hits = {} THEN Zero
           ELSE LET q == CHOOSE h \in hits : \A g \in hits : g <= h
                IN Clamp(Cast("float64", coefs[q].value).e)]

\* C2: after any sequence of completed calls (none raised), a returning
\* add_constr(coefs, ...) appends the row that holds each listed value at
\* offset(name) + idx and 0 everywhere else, whatever element type or shape
\* earlier calls left in the buffers.
C2_RowFromArgsOnly ==
    [][(call'.op = "add_constr" /\ call'.ok /\ ~raised')
         => \A coefs \in SeqsUpTo(Coefs, MaxCoefs), rv \in RightValues, ct \in ConstrTypes :
               LET res == add_constr(Here, coefs, rv, ct)
               IN (/\ res.ok
                   /\ res.m.notations = notations'
                   /\ res.m.coef_mat = coef_mat'
                   /\ res.m.right_values = right_values'
                   /\ res.m.constr_types = constr_types')
                    => LastRow(coef_mat') = ExpectedRow(notations, length, coefs)]_vars

\* One coefficient pattern (1.5 at the first element of notation n, nothing
\* else) as a coefs list, as a dense array and as a callback.
PatternItems(n) == <<coef(n, Half(1), FlatIdx(0))>>
PatternMat(nots, n) ==
    LET shape == nots[Pos(nots, n)].shape
    IN <<[name |-> n,
          mat |-> [shape |-> shape,
                   at |-> [i \in Indices(shape) |->
                             IF i = Unravel(0, shape) THEN Half(1) ELSE Num(0)]]]>>
PatternCallback(n) == <<[name |-> n, callback |-> CbItem(FlatIdx(0), Half(1))]>>
RowOf(res) == IF res.ok THEN <<LastRow(res.m.coef_mat)>> ELSE <<>>

\* C3: the same coefficient pattern given through add_constr, add_constr_mat
\* and add_constr_callback yields the same row, from every state that
\* completed calls can leave.
C3_StylesAgree ==
    ~raised => \A n \in Names(notations) :
        LET byItems == RowOf(add_constr(Here, PatternItems(n), PyInt(75), LEQ))
            byMat == RowOf(add_constr_mat(Here, PatternMat(notations, n), PyInt(75), LEQ))
            byCallback == RowOf(add_constr_callback(Here, PatternCallback(n), PyInt(75), LEQ))
        IN byItems = byMat /\ byMat = byCallback

RECURSIVE SumLength(_, _)
SumLength(nots, k) == IF k = 0 THEN 0 ELSE nots[k].length + SumLength(nots, k - 1)
LayoutOf(nots) ==
    [p \in 1 .. Len(nots) |-> <<nots[p].name, nots[p].shape, nots[p].offset, nots[p].length>>]
C4_LayoutOK ==
    /\ \A p \in 1 .. Len(notations) :
          /\ notations[p].offset = SumLength(notations, p - 1)
          /\ notations[p].length = Prod(notations[p].shape)
    /\ length = SumLength(notations, Len(notations))

\* C4: _offset is the sum of the _length of the notations declared before,
\* _length the product of the shape, Model.length the sum of all lengths, and
\* no call changes any of them.
C4_FlatLayout ==
    /\ []C4_LayoutOK
    /\ [][LayoutOf(notations') = LayoutOf(notations) /\ length' = length]_vars

\* Two calls later, a notation with a non-zero offset whose buffer an array of
\* another shape replaced still has its layout.
C4_Witness ==
    /\ ncalls = 2 /\ Len(notations) = 2 /\ Len(coef_mat) = 2
    /\ notations[2].offset = 2 /\ length = 3
    /\ notations[2].mat.shape # notations[2].shape

\* The round trip: given the concatenation of the tagged arrays,
\* reshape_notation returns each of them, with its name and registered shape.
C5_RoundTripOK ==
    (call.op = "reshape_notation" /\ call.arg = Flatten(Tagged(notations)))
        => /\ call.ok
           /\ Len(ret) = Len(notations)
           /\ \A p \in 1 .. Len(notations) :
                 /\ ret[p].name = notations[p].name
                 /\ ret[p].value.shape = notations[p].shape
                 /\ ret[p].value.at = Tagged(notations)[p].at

\* C5: reshape_notation inverts declaration-order flattening (every notation
\* gets back its array with its registered shape) and changes neither the
\* buffers nor the constraint store.
C5_ReshapeRoundTrip ==
    /\ []C5_RoundTripOK
    /\ [][call'.op = "reshape_notation"
            => UNCHANGED <<notations, coef_mat, right_values, constr_types>>]_vars

\* reshape_notation returned the 2 x 2 notation after an authoring call, its
\* element (1, 0) being the third of the flat vector.
C5_Witness ==
    /\ call.op = "reshape_notation" /\ call.ok /\ ncalls = 2 /\ Len(coef_mat) = 1
    /\ notations[1].shape = <<2, 2>>
    /\ ret[1].value.at[<<1, 0>>] = call.arg[3]
    /\ call.arg[3] = Num(110)

NoInf(seq) == \A k \in 1 .. Len(seq) : seq[k].k # "inf"

\* C6: no infinite value reaches the solver: none in a stored row, in the
\* objective vector, or in the bound vectors given to lp_maker.
C6_NoInfinityReachesSolver ==
    /\ \A r \in 1 .. Len(coef_mat) : NoInf(coef_mat[r])
    /\ solver.called => NoInf(solver.f) /\ NoInf(solver.vlb) /\ NoInf(solver.vub)

\* C7: an authoring call that raises for an unregistered name or an index
\* outside the shape leaves the constraint store and every buffer as they were.
C7_FailedCallChangesNothing ==
    [][(call'.op \in Authoring /\ ~call'.ok /\ call'.err \in {"KeyError", "IndexError"})
         => UNCHANGED <<notations, coef_mat, right_values, constr_types>>]_vars

\* C8: every stored row, the objective and both bound vectors have length
\* Model.length, and every buffer keeps its notation's registered shape.
C8_DimensionConsistency ==
    /\ \A r \in 1 .. Len(coef_mat) : Len(coef_mat[r]) = length
    /\ solver.called =>
          Len(solver.f) = length /\ Len(solver.vlb) = length /\ Len(solver.vub) = length
    /\ \A p \in 1 .. Len(notations) : notations[p].mat.shape = notations[p].shape

\* The 1-based flat indices of the INT_TYPE notations.
IntColumns(nots) ==
    UNION {(nots[p].offset + 1) .. (nots[p].offset + nots[p].length) :
           p \in {q \in 1 .. Len(nots) : nots[q].type = INT_TYPE}}
C9_IntOK ==
    /\ {must_be_int[k] : k \in 1 .. Len(must_be_int)} = IntColumns(notations)
    /\ Len(must_be_int) = Cardinality(IntColumns(notations))
    /\ IntColumns(notations) \subseteq 1 .. length

\* C9: must_be_int holds exactly the 1-based flat indices offset+1 ..
\* offset+length of the INT_TYPE notations, each once, all within
\* 1 .. Model.length, and no call modifies it.
C9_MustBeInt ==
    /\ []C9_IntOK
    /\ [][must_be_int' = must_be_int]_vars

\* lp_solve handed the indices 2 and 3 of the INT_TYPE notation declared second
\* to the solver, after an earlier call.
C9_Witness ==
    /\ must_be_int = <<2, 3>> /\ ncalls = 2 /\ call.op = "lp_solve"
    /\ solver.called /\ solver.xint = <<2, 3>>
    /\ notations[1].type = FLOAT_TYPE /\ notations[2].type = INT_TYPE

IsPrefix(s, t) == Len(s) <= Len(t) /\ SubSeq(t, 1, Len(s)) = s
C10_Aligned ==
    Len(coef_mat) = Len(right_values) /\ Len(right_values) = Len(constr_types)
C10_AppendOnly ==
    /\ IsPrefix(coef_mat, coef_mat') /\ IsPrefix(right_values, right_values')
    /\ IsPrefix(constr_types, constr_types')
    /\ (call'.op \in Authoring /\ call'.ok) => Len(coef_mat') = Len(coef_mat) + 1
    /\ call'.op \notin Authoring => Len(right_values') = Len(right_values)

\* C10: the three lists of the constraint store have the same length in every
\* state, also after a call that raised; a returning authoring call appends one
\* entry to each, and nothing else changes them.
C10_StoreAlignedAppendOnly ==
    /\ []C10_Aligned
    /\ [][C10_AppendOnly]_vars

====
